---- MODULE Spec2Model ----
(***************************************************************************)
(* What-If-Wizard: the retrieval pipeline of backend/document_processor.py *)
(* (HybridDocumentProcessor, LocalEmbeddings, SimpleEmbeddings) and of     *)
(* backend/question_answerer.py (QuestionAnswerer.answer_question).        *)
(*                                                                         *)
(* The specifications share the variables below:                           *)
(*   SpecInit   _initialize_embeddings, one step per candidate             *)
(*   SpecEmbed  SimpleEmbeddings.embed_query, one step per loop iteration  *)
(*   Spec       a constructed processor serving process_document,          *)
(*              search_similar_chunks, clear_document and answer_question  *)
(*   SpecConfidence  answer_question after its search, one step per stage  *)
(*   SpecSplit  chunk_text: the splitter of lines 39-44 on a text of        *)
(*              characters, one step per loop iteration                    *)
(*   SpecRestart  process_document and search_similar_chunks with the      *)
(*              process restarting on the persistent store in between      *)
(*   SpecApp      the handlers of app.py, /upload and /reset one statement *)
(*              at a time                                                  *)
(*   SpecThreads  process_document one step per store call, with searches  *)
(*              and clears of other request threads in between             *)
(*                                                                         *)
(* Numbers: similarity scores and distances are fixed-point, in units of   *)
(* 1/One (hundredths); the entries of a SimpleEmbeddings vector are kept   *)
(* as the byte b standing for b/255.0.                                     *)
(***************************************************************************)
EXTENDS Integers, Sequences, FiniteSets, TLC

VARIABLES
    embeddings,   \* self.embeddings: the adopted provider, or None during construction
    client,       \* the ChromaDB store: a dict, collection name -> collection
    collections,  \* self.collections: a dict, document_id -> collection (its name)
    issued,       \* how many uuid4 document ids process_document has generated
    last,         \* the most recent call and what it gave the caller
    env,          \* SpecInit: the environment _initialize_embeddings runs in
    initpc,       \* SpecInit: the candidate _initialize_embeddings is at
    tried,        \* SpecInit: the candidates whose try-block was entered, in order
    e_text,       \* SpecEmbed: the argument of embed_query
    e_pc,         \* SpecEmbed: position in embed_query
    e_i,          \* SpecEmbed: the loop variable i of the hex-pair loop
    e_vector,     \* SpecEmbed: the local variable vector
    c_chunks,     \* SpecConfidence: relevant_chunks, what the search gave answer_question
    c_pc,         \* SpecConfidence: position in answer_question
    c_out,        \* SpecConfidence: context_parts, sources, avg_similarity, confidence
    inflight,     \* SpecThreads: the process_document call between its two store calls
    t_text,       \* SpecSplit: the argument of chunk_text, a sequence of characters
    t_pc,         \* SpecSplit: position in chunk_text and the splitter
    t_stack,      \* SpecSplit: the calls of _split_text in progress, innermost last
    t_merge,      \* SpecSplit: the locals of the _merge_splits call in progress
    t_final,      \* SpecSplit: final_chunks, in the order the calls extend it
    t_chunks,     \* SpecSplit: what chunk_text returns
    current_document_id,    \* app.py line 33
    current_document_text,  \* app.py line 34
    upload,       \* SpecApp: the /upload request being handled and its position
    reset,        \* SpecApp: the /reset request being handled and its position
    response,     \* SpecApp: the response a handler returned last
    uploaded,     \* SpecApp: the file process_document indexed under each id
    session       \* SpecApp: whether the last of /upload's 200 and /reset was the 200

procVars  == <<client, collections, issued, last>>
initVars  == <<env, initpc, tried>>
embedVars == <<e_text, e_pc, e_i, e_vector>>
confVars  == <<c_chunks, c_pc, c_out>>
splitVars == <<t_text, t_pc, t_stack, t_merge, t_final, t_chunks>>
appVars   == <<current_document_id, current_document_text, upload, reset, response,
               uploaded, session>>
vars == <<embeddings, client, collections, issued, last, env, initpc, tried,
          e_text, e_pc, e_i, e_vector, c_chunks, c_pc, c_out, inflight,
          t_text, t_pc, t_stack, t_merge, t_final, t_chunks,
          current_document_id, current_document_text, upload, reset, response,
          uploaded, session>>

None == "None"

\* no call made yet
NoCall == [op |-> "none"]

----------------------------------------------------------------------------
(* Bounds of the model *)

\* uuid4 values process_document may draw in one run
MaxDocs == 2

----------------------------------------------------------------------------
(* Providers *)

OpenAIEmbeddings == "OpenAIEmbeddings"        \* option 1
ByteZEmbeddings  == "OpenAIEmbeddings@bytez"  \* option 2: the same class, ByteZ base url
LocalEmbeddings  == "LocalEmbeddings"         \* option 3
SimpleEmbeddings == "SimpleEmbeddings"        \* option 4

\* the order of the four options in _initialize_embeddings
Candidates == <<OpenAIEmbeddings, ByteZEmbeddings, LocalEmbeddings, SimpleEmbeddings>>
Providers  == {OpenAIEmbeddings, ByteZEmbeddings, LocalEmbeddings, SimpleEmbeddings}

\* What a call into a provider, the store or the language model can do.
\* SimpleEmbeddings is pure Python over hashlib and has no failing path;
\* the other providers call a network API or a loaded model.
CallOutcomes == {"ok", "raise"}
EmbedOutcomes(p) == IF p = SimpleEmbeddings THEN {"ok"} ELSE CallOutcomes

\* What the calls made in sequence by one operation do: once a call has
\* raised the later ones are not made, so at most one of them raises.
RECURSIVE CallSequences(_)
CallSequences(sets) ==
    IF sets = <<>> THEN {<<>>}
    ELSE {<<"ok">> \o rest : rest \in CallSequences(Tail(sets))}
         \cup (IF "raise" \in sets[1]
                THEN {<<"raise">> \o [i \in 1 .. Len(sets) - 1 |-> "ok"]}
                ELSE {})

----------------------------------------------------------------------------
(* _initialize_embeddings (document_processor.py 51-94)                    *)

\* os.getenv(...) values: None, or a key with the two properties line 55 reads
NoKey == [set |-> FALSE, placeholder |-> FALSE, len |-> 0]

Keys == {NoKey,
         [set |-> TRUE, placeholder |-> FALSE, len |-> 0],
         [set |-> TRUE, placeholder |-> TRUE,  len |-> 30],
         [set |-> TRUE, placeholder |-> FALSE, len |-> 20],
         [set |-> TRUE, placeholder |-> FALSE, len |-> 21]}

\* what embed_query("test") does on a remote provider
ProbeOutcomes == {"ok", "empty", "raise"}

\* The environment of one construction. encode says what LocalEmbeddings
\* .embed_query would do on the loaded model; the constructor never asks.
Envs == [openai_key : Keys,
         bytez_key  : {NoKey, [set |-> TRUE, placeholder |-> FALSE, len |-> 21]},
         openai     : ProbeOutcomes,
         bytez      : ProbeOutcomes,
         load       : CallOutcomes,
         encode     : CallOutcomes]

NoEnv == [openai_key |-> NoKey, bytez_key |-> NoKey, openai |-> "raise",
          bytez |-> "raise", load |-> "raise", encode |-> "raise"]

\* line 55: openai_key and not openai_key.startswith('sk-abcdef') and len(openai_key) > 20
OpenAIKeyUsable(key) == key.set /\ key.len > 0 /\ ~key.placeholder /\ key.len > 20

\* line 69: if bytez_key
ByteZKeyUsable(key) == key.set /\ key.len > 0

\* lines 60-63 and 78-81: the probe adopts only on a non-empty vector
ProbeAdopts(outcome) == outcome = "ok"

\* lines 86-90: LocalEmbeddings() is adopted as soon as its constructor returns
LocalAdopts(e) == e.load = "ok"

\* lines 54-65
TryOpenAI ==
    /\ initpc = "openai"
    /\ IF OpenAIKeyUsable(env.openai_key)
       THEN /\ tried' = Append(tried, OpenAIEmbeddings)
            /\ IF ProbeAdopts(env.openai)
               THEN embeddings' = OpenAIEmbeddings /\ initpc' = "done"
               ELSE embeddings' = embeddings /\ initpc' = "bytez"
       ELSE /\ tried' = tried
            /\ embeddings' = embeddings
            /\ initpc' = "bytez"
    /\ UNCHANGED <<env, procVars, embedVars, confVars, inflight, splitVars, appVars>>

\* lines 67-83
TryByteZ ==
    /\ initpc = "bytez"
    /\ IF ByteZKeyUsable(env.bytez_key)
       THEN /\ tried' = Append(tried, ByteZEmbeddings)
            /\ IF ProbeAdopts(env.bytez)
               THEN embeddings' = ByteZEmbeddings /\ initpc' = "done"
               ELSE embeddings' = embeddings /\ initpc' = "local"
       ELSE /\ tried' = tried
            /\ embeddings' = embeddings
            /\ initpc' = "local"
    /\ UNCHANGED <<env, procVars, embedVars, confVars, inflight, splitVars, appVars>>

\* lines 85-90
TryLocal ==
    /\ initpc = "local"
    /\ tried' = Append(tried, LocalEmbeddings)
    /\ IF LocalAdopts(env)
       THEN embeddings' = LocalEmbeddings /\ initpc' = "done"
       ELSE embeddings' = embeddings /\ initpc' = "simple"
    /\ UNCHANGED <<env, procVars, embedVars, confVars, inflight, splitVars, appVars>>

\* lines 92-94
UseSimple ==
    /\ initpc = "simple"
    /\ tried' = Append(tried, SimpleEmbeddings)
    /\ embeddings' = SimpleEmbeddings
    /\ initpc' = "done"
    /\ UNCHANGED <<env, procVars, embedVars, confVars, inflight, splitVars, appVars>>

----------------------------------------------------------------------------
(* SimpleEmbeddings.embed_query (document_processor.py 284-301)            *)

\* line 298: the fixed size of the returned vector
EmbeddingDim == 384

\* the texts embed_query is run on
EmbedTexts == {"", "test", "a", "b", "ab", "alpha"}

\* hashlib.md5(text.encode()).hexdigest(): the 32 hex digits, each as its value
HexDigest(t) ==
    CASE
    t = "" -> <<13,4,1,13,8,12,13,9,8,15,0,0,11,2,0,4,14,9,8,0,0,9,9,8,14,12,15,8,4,2,7,14>>  \* d41d8cd98f00b204e9800998ecf8427e
     [] t = "test" -> <<0,9,8,15,6,11,12,13,4,6,2,1,13,3,7,3,12,10,13,14,4,14,8,3,2,6,2,7,11,4,15,6>>  \* 098f6bcd4621d373cade4e832627b4f6
     [] t = "a" -> <<0,12,12,1,7,5,11,9,12,0,15,1,11,6,10,8,3,1,12,3,9,9,14,2,6,9,7,7,2,6,6,1>>  \* 0cc175b9c0f1b6a831c399e269772661
     [] t = "b" -> <<9,2,14,11,5,15,15,14,14,6,10,14,2,15,14,12,3,10,13,7,1,12,7,7,7,5,3,1,5,7,8,15>>  \* 92eb5ffee6ae2fec3ad71c777531578f
     [] t = "ab" -> <<1,8,7,14,15,4,4,3,6,1,2,2,13,1,12,12,2,15,4,0,13,12,2,11,9,2,15,0,14,11,10,0>>  \* 187ef4436122d1cc2f40dc2b92f0eba0
     [] t = "alpha" -> <<2,12,1,7,4,3,10,3,9,1,3,0,5,15,11,15,3,6,7,13,15,8,14,4,15,0,6,9,15,9,15,9>>  \* 2c1743a391305fbf367df8e4f069f9f9

\* line 294-295: int(text_hash[i:i+2], 16) / 255.0, i counted from 0; the
\* float is kept exactly, as numerator and denominator
HexPairValue(text_hash, i) ==
    [num |-> 16 * text_hash[i + 1] + text_hash[i + 2], den |-> 255]

\* vector[:n]
Prefix(seq, n) == SubSeq(seq, 1, IF n < Len(seq) THEN n ELSE Len(seq))

\* PadStep padding with 0.0 instead of repeating the vector
PadStepZeros(vector) ==
    vector \o [i \in 1 .. EmbeddingDim - Len(vector) |-> [num |-> 0, den |-> 255]]

\* line 299: vector.extend(vector[:384-len(vector)])
PadStep(vector) == vector \o Prefix(vector, EmbeddingDim - Len(vector))

\* line 289
EmbedHash ==
    /\ e_pc = "hash"
    /\ e_pc' = "pairs"
    /\ e_i' = 0
    /\ e_vector' = <<>>
    /\ UNCHANGED <<e_text, embeddings, procVars, initVars, confVars, inflight, splitVars, appVars>>

\* lines 293-295: one iteration of for i in range(0, len(text_hash), 2)
EmbedHexPair ==
    /\ e_pc = "pairs"
    /\ IF e_i < Len(HexDigest(e_text))
       THEN /\ e_vector' = Append(e_vector, HexPairValue(HexDigest(e_text), e_i))
            /\ e_i' = e_i + 2
            /\ e_pc' = e_pc
       ELSE /\ e_pc' = "pad"
            /\ UNCHANGED <<e_i, e_vector>>
    /\ UNCHANGED <<e_text, embeddings, procVars, initVars, confVars, inflight, splitVars, appVars>>

\* lines 298-301: one iteration of the while loop, or the return
EmbedPad ==
    /\ e_pc = "pad"
    /\ IF Len(e_vector) < EmbeddingDim
       THEN e_vector' = PadStep(e_vector) /\ e_pc' = e_pc
       ELSE e_vector' = Prefix(e_vector, EmbeddingDim) /\ e_pc' = "done"
    /\ UNCHANGED <<e_text, e_i, embeddings, procVars, initVars, confVars, inflight, splitVars, appVars>>

----------------------------------------------------------------------------
(* Documents, chunks and vectors                                           *)

\* 1 in the fixed-point unit of scores and distances (line 223: 1 - distance)
One == 100

\* line 202: k: int = 5
DefaultK == 5

\* str(uuid.uuid4()) of line 127: the n-th call returns n
DocIds == 1 .. MaxDocs

\* line 139 and 194: f"doc_{document_id.replace('-', '_')}"
collection_name(document_id) == <<"doc_", document_id>>

CollectionNames == {collection_name(d) : d \in DocIds}

\* The uploaded PDFs: the file name and what PyPDF2 extracts from the pages.
Files == {[filename |-> "blank.pdf", text |-> "T_blank"],
          [filename |-> "mix.pdf",   text |-> "T_mix"]}

\* line 110: not text.strip()
IsBlank(text) == text = "T_blank"

\* RecursiveCharacterTextSplitter.split_text of lines 39-44 on each text
split_text(text) ==
    CASE text = "T_mix" -> <<"gamma", "alpha", "beta", "alpha">>
      [] text = "T_more" -> <<"beta">>
      [] OTHER -> <<>>

\* str.strip() on the segments above and on the blank segment
strip(s) == IF s \in {"", " ", "  "} THEN "" ELSE s

\* line 121: [chunk.strip() for chunk in chunks if chunk.strip()]
chunk_text(text) ==
    LET chunks == split_text(text)
        stripped == [i \in 1 .. Len(chunks) |-> strip(chunks[i])]
    IN  SelectSeq(stripped, LAMBDA c : c # "")

\* The questions asked of a document.
Queries == {"what", "other"}

\* Where a provider's model puts a text, in units of 1/One. One axis stands
\* for the vector space; every provider is given the same geometry.
Position(t) ==
    CASE t = "alpha" -> 0
      [] t = "beta"  -> 80
      [] t = "gamma" -> 85
      [] t = "what"  -> 10
      [] t = "other" -> 0 - 80
      [] OTHER       -> 0

\* The length of the vectors of provider p: text-embedding-ada-002 (lines 58
\* and 72), all-MiniLM-L6-v2 (line 261), vector[:384] (line 301)
Dimension(p) ==
    CASE p = OpenAIEmbeddings -> 1536
      [] p = ByteZEmbeddings  -> 1536
      [] p = LocalEmbeddings  -> 384
      [] OTHER                -> EmbeddingDim

\* embed_query(text) of provider p (lines 267-270, 284-301)
embed_query(p, t) == [provider |-> p, dim |-> Dimension(p), x |-> Position(t)]

\* lines 166-169 embedding the first text with the adopted provider and each
\* later one with SimpleEmbeddings
embed_documents_mixed(p, texts) ==
    [i \in 1 .. Len(texts) |->
        IF i = 1 THEN embed_query(p, texts[i])
        ELSE embed_query(SimpleEmbeddings, texts[i])]

\* embed_documents(texts) of provider p (lines 272-275, 303-305)
embed_documents(p, texts) == [i \in 1 .. Len(texts) |-> embed_query(p, texts[i])]

\* the store's distance between a query vector and a stored vector
Distance(q, v) == IF q.x >= v.x THEN q.x - v.x ELSE v.x - q.x

\* lines 152-160: the entries process_document builds for collection.add
ChunkId(document_id, i) == <<document_id, "_chunk_", i>>

\* lines 155-160 with enumerate(chunks, 1)
ChunkMetadataOneBased(document_id, filename, i, n) ==
    [document_id |-> document_id, filename |-> filename,
     chunk_index |-> i + 1, chunk_count |-> n]

ChunkMetadata(document_id, filename, i, n) ==
    [document_id |-> document_id, filename |-> filename,
     chunk_index |-> i, chunk_count |-> n]

BuildEntries(document_id, filename, chunks, vectors) ==
    [j \in 1 .. Len(chunks) |->
        [id        |-> ChunkId(document_id, j - 1),
         document  |-> chunks[j],
         metadata  |-> ChunkMetadata(document_id, filename, j - 1, Len(chunks)),
         embedding |-> vectors[j]]]

\* lines 142-145: the collection create_collection returns
NewCollection(document_id, filename) ==
    [name     |-> collection_name(document_id),
     metadata |-> [filename |-> filename, document_id |-> document_id],
     entries  |-> <<>>]

----------------------------------------------------------------------------
(* HybridDocumentProcessor                                                 *)

\* Python dicts: d[k] = v and del d[k]
Put(d, k, v) == [x \in DOMAIN d \cup {k} |-> IF x = k THEN v ELSE d[x]]
Del(d, k)    == [x \in DOMAIN d \ {k} |-> d[x]]

\* What a call gave its caller: a value, or an exception and its message.
Returned(v)     == [raised |-> FALSE, value |-> v, error |-> <<>>]
Raised(message) == [raised |-> TRUE, value |-> None, error |-> message]

\* extract_text_from_pdf without the test of lines 110-111
extract_text_from_pdf_unchecked(file, rd) ==
    IF rd = "raise"
    THEN Raised(<<"Error extracting text from PDF", "read">>)
    ELSE Returned(file.text)

\* extract_text_from_pdf (lines 96-116); rd is what open/PdfReader does
extract_text_from_pdf(file, rd) ==
    IF rd = "raise"
    THEN Raised(<<"Error extracting text from PDF", "read">>)
    ELSE IF IsBlank(file.text)
         THEN Raised(<<"Error extracting text from PDF",
                       "No text could be extracted from the PDF">>)
         ELSE Returned(file.text)

\* collection.add (lines 172-177): Chroma refuses an empty list of ids
AddRaises(ids, ad) == ad = "raise" \/ Len(ids) = 0

\* process_document (lines 123-186). rd, cr, em, ad are what the PDF
\* reader, create_collection, embed_documents and collection.add do.
process_document(file, rd, cr, em, ad) ==
    LET document_id == issued + 1
        extracted   == extract_text_from_pdf(file, rd)
        chunks      == chunk_text(extracted.value)
        name        == collection_name(document_id)
        created     == Put(client, name, NewCollection(document_id, file.filename))
        vectors     == embed_documents(embeddings, chunks)
        entries     == BuildEntries(document_id, file.filename, chunks, vectors)
        wrap(m)     == Raised(<<"Error processing document", m>>)
        call(res, stopped) ==
            [op |-> "process_document", file |-> file, document_id |-> document_id,
             provider |-> embeddings, stopped |-> stopped, result |-> res]
    IN
    /\ issued < MaxDocs
    /\ issued' = document_id
    /\ embeddings' = embeddings
    /\ IF extracted.raised
       THEN /\ last' = call(wrap(extracted.error), "extract")
            /\ UNCHANGED <<client, collections>>
       ELSE IF cr = "raise"
       THEN /\ last' = call(wrap(<<"create_collection">>), "create")
            /\ UNCHANGED <<client, collections>>
       ELSE IF em = "raise"
       THEN /\ client' = created
            /\ last' = call(wrap(<<"embed_documents">>), "embed")
            /\ UNCHANGED collections
       ELSE IF AddRaises(entries, ad)
       THEN /\ client' = created
            /\ last' = call(wrap(<<"collection.add">>), "add")
            /\ UNCHANGED collections
       ELSE /\ client' = [created EXCEPT ![name].entries = entries]
            /\ collections' = Put(collections, document_id, name)
            /\ last' = call(Returned(document_id), "return")
    /\ UNCHANGED <<initVars, embedVars, confVars, inflight, splitVars>>

\* get_collection handing out whichever collection is cached, whatever the id
get_collection_any(document_id, g) ==
    IF DOMAIN collections # {}
    THEN [result |-> Returned(collections[CHOOSE d \in DOMAIN collections : TRUE]),
          collections |-> collections]
    ELSE [result |-> Raised(<<"No collection found for document ID", document_id>>),
          collections |-> collections]

\* get_collection storing the reference before the store has confirmed it
get_collection_caching_first(document_id, g) ==
    IF document_id \in DOMAIN collections
    THEN [result |-> Returned(collections[document_id]), collections |-> collections]
    ELSE IF collection_name(document_id) \in DOMAIN client /\ g = "ok"
         THEN [result |-> Returned(collection_name(document_id)),
               collections |-> Put(collections, document_id,
                                   collection_name(document_id))]
         ELSE [result |-> Raised(<<"No collection found for document ID", document_id>>),
               collections |-> Put(collections, document_id,
                                   collection_name(document_id))]

\* get_collection (lines 188-200); g is what client.get_collection does
\* when the collection exists. Gives the exception or the collection, and
\* self.collections after the call.
get_collection(document_id, g) ==
    IF document_id \in DOMAIN collections
    THEN [result |-> Returned(collections[document_id]), collections |-> collections]
    ELSE IF collection_name(document_id) \in DOMAIN client /\ g = "ok"
         THEN [result |-> Returned(collection_name(document_id)),
               collections |-> Put(collections, document_id,
                                   collection_name(document_id))]
         ELSE [result |-> Raised(<<"No collection found for document ID", document_id>>),
               collections |-> collections]

\* The orders in which the store can list a collection's entries, nearest
\* first; entries at equal distance come in an order the store chooses.
NearestFirst(entries, q) ==
    {p \in Permutations(1 .. Len(entries)) :
        \A i, j \in 1 .. Len(entries) :
            i < j => Distance(q, entries[p[i]].embedding)
                       <= Distance(q, entries[p[j]].embedding)}

\* the values of k search_similar_chunks is called with
SearchKs == {1, DefaultK}

\* line 213: n_results=k
n_results(k, count) == IF k < count THEN k ELSE count

\* collection.query (lines 211-215): the answers the store can give, each a
\* sequence of entries with their distances
collection_query(collection, q, k) ==
    LET entries == client[collection].entries
    IN  {[i \in 1 .. n_results(k, Len(entries)) |->
            [document |-> entries[p[i]].document,
             metadata |-> entries[p[i]].metadata,
             distance |-> Distance(q, entries[p[i]].embedding)]]
         : p \in NearestFirst(entries, q)}

\* line 223: 1 - results['distances'][0][i]
similarity_score(distance) == One - distance

\* lines 218-225
format_results(results) ==
    [i \in 1 .. Len(results) |->
        [content          |-> results[i].document,
         metadata         |-> results[i].metadata,
         similarity_score |-> similarity_score(results[i].distance),
         chunk_index      |-> results[i].metadata.chunk_index]]

\* line 228: list.sort(key=similarity_score, reverse=True). Python's sort
\* is stable under reverse=True: equal keys keep their order.
\* (ComesBeforeAscending is the sort without reverse=True.)
ComesBeforeAscending(a, b) == a.similarity_score <= b.similarity_score

ComesBefore(a, b) == a.similarity_score >= b.similarity_score

RECURSIVE InsertSorted(_, _)
InsertSorted(x, sorted) ==
    IF sorted = <<>> THEN <<x>>
    ELSE IF ComesBefore(sorted[Len(sorted)], x)
         THEN Append(sorted, x)
         ELSE Append(InsertSorted(x, SubSeq(sorted, 1, Len(sorted) - 1)),
                     sorted[Len(sorted)])

RECURSIVE sort_results(_)
sort_results(s) ==
    IF s = <<>> THEN <<>>
    ELSE InsertSorted(s[Len(s)], sort_results(SubSeq(s, 1, Len(s) - 1)))

\* collection.query (lines 211-215) raises when the store fails, and when
\* the query vector is not as long as the vectors the collection holds
QueryRaises(collection, q, qr) ==
    \/ qr = "raise"
    \/ \E i \in 1 .. Len(client[collection].entries) :
          client[collection].entries[i].embedding.dim # q.dim

\* search_similar_chunks (lines 202-233). g, em, qr are what the store's
\* get_collection, embed_query and collection.query do; answer is the
\* store's answer when the query succeeds. Gives the result and
\* self.collections after the call.
search_similar_chunks(query, document_id, k, g, em, qr, answer) ==
    LET got     == get_collection(document_id, g)
        wrap(m) == Raised(<<"Error searching document">> \o m)
    IN  IF got.result.raised
        THEN [result |-> wrap(got.result.error), collections |-> got.collections]
        ELSE IF em = "raise"
        THEN [result |-> wrap(<<"embed_query">>), collections |-> got.collections]
        ELSE IF QueryRaises(got.result.value, embed_query(embeddings, query), qr)
        THEN [result |-> wrap(<<"collection.query">>), collections |-> got.collections]
        ELSE [result |-> Returned(sort_results(format_results(answer))),
              collections |-> got.collections]

\* The answers the store can give search_similar_chunks: none when the call
\* does not reach collection.query.
StoreAnswers(query, document_id, k, g) ==
    LET got == get_collection(document_id, g)
    IN  IF got.result.raised THEN {<<>>}
        ELSE collection_query(got.result.value, embed_query(embeddings, query), k)

\* a call of search_similar_chunks(query, document_id, k)
SearchSimilarChunks ==
    \E query \in Queries, document_id \in DocIds, k \in SearchKs,
       o \in CallSequences(<<CallOutcomes, EmbedOutcomes(embeddings), CallOutcomes>>) :
    \E answer \in StoreAnswers(query, document_id, k, o[1]) :
        LET done == search_similar_chunks(query, document_id, k, o[1], o[2], o[3], answer)
        IN  /\ collections' = done.collections
            /\ last' = [op |-> "search_similar_chunks", query |-> query,
                        document_id |-> document_id, k |-> k,
                        indexed |-> collection_name(document_id) \in DOMAIN client,
                        result |-> done.result]
            /\ UNCHANGED <<embeddings, client, issued, initVars, embedVars, confVars,
                        inflight, splitVars, appVars>>

\* clear_document without lines 244-245: the cached reference stays
clear_document_keeping_cache(document_id, dl) ==
    LET name == collection_name(document_id)
        call(res) == [op |-> "clear_document", document_id |-> document_id,
                      indexed |-> name \in DOMAIN client, result |-> res]
    IN  IF name \notin DOMAIN client \/ dl = "raise"
        THEN /\ last' = call(Returned(FALSE))
             /\ UNCHANGED <<client, collections>>
        ELSE /\ client' = Del(client, name)
             /\ collections' = collections
             /\ last' = call(Returned(TRUE))

\* clear_document (lines 235-252); dl is what delete_collection does when
\* the collection exists (it raises when there is none)
clear_document(document_id, dl) ==
    LET name == collection_name(document_id)
        call(res) == [op |-> "clear_document", document_id |-> document_id,
                      indexed |-> name \in DOMAIN client, result |-> res]
    IN  IF name \notin DOMAIN client \/ dl = "raise"
        THEN /\ last' = call(Returned(FALSE))
             /\ UNCHANGED <<client, collections>>
        ELSE /\ client' = Del(client, name)
             /\ collections' = IF document_id \in DOMAIN collections
                                THEN Del(collections, document_id)
                                ELSE collections
             /\ last' = call(Returned(TRUE))

ClearDocument ==
    \E document_id \in DocIds, dl \in CallOutcomes :
        /\ clear_document(document_id, dl)
        /\ UNCHANGED <<embeddings, issued, initVars, embedVars, confVars, inflight, splitVars, appVars>>

ProcessDocument ==
    \E file \in Files,
       o \in CallSequences(<<CallOutcomes, CallOutcomes, EmbedOutcomes(embeddings),
                             CallOutcomes>>) :
        /\ process_document(file, o[1], o[2], o[3], o[4])
        /\ UNCHANGED appVars

----------------------------------------------------------------------------
(* A later process on the same store: chromadb.PersistentClient (lines     *)
(* 27-33) re-opens ./chroma_db, _initialize_embeddings (line 36) adopts    *)
(* whatever provider passes now, and self.collections starts empty (line   *)
(* 47).                                                                    *)
Restart ==
    /\ embeddings' \in Providers
    /\ collections' = <<>>
    /\ last' = [op |-> "restart"]
    /\ UNCHANGED <<client, issued, initVars, embedVars, confVars, inflight, splitVars, appVars>>

----------------------------------------------------------------------------
(* app.py: the request handlers and the two globals they share. app.run    *)
(* (line 476) serves each request on a thread of its own, so a handler     *)
(* runs between the statements of another. /upload and /reset are taken    *)
(* one statement that touches the globals or the store at a time; the      *)
(* four reading endpoints are one step each.                               *)

Idle == [pc |-> "idle"]

\* no request answered yet
NoResponse == [endpoint |-> "none"]

\* None where a document id stands: process_document numbers its ids from 1
NoId == 0

\* What the client sends to /upload: a request without a file part, a file
\* with an empty name, a file that is not a PDF, or one of the PDFs.
UploadFiles == Files \cup {[filename |-> "more.pdf", text |-> "T_more"]}
UploadRequests ==
    {[filename |-> None, text |-> None],
     [filename |-> "", text |-> "T_mix"],
     [filename |-> "notes.txt", text |-> "T_notes"]} \cup UploadFiles

\* What the client sends to /ask as the question
Questions == {"no question", "  ", "what"}

NoDocumentUploaded == "No document uploaded. Please upload a PDF first."

\* jsonify(...), status: what a handler returns, with what the globals and
\* the other handlers were when it returned
Respond(endpoint, status, body) ==
    [endpoint |-> endpoint, status |-> status, body |-> body,
     document_id |-> current_document_id,
     quiet |-> (upload = Idle \/ endpoint = "/upload")
               /\ (reset = Idle \/ endpoint = "/reset"),
     session |-> session]

\* lines 279-288: the requests /upload answers with status 400
UploadRejection(request) ==
    CASE request.filename = None -> [error |-> "No file provided"]
      [] request.filename = ""   -> [error |-> "No file selected"]
      [] OTHER                   -> [error |-> "Only PDF files are allowed"]

\* lines 312-314
UploadFailed == [error |-> "Failed to process document"]

\* upload_file, lines 279-294: the validations, file.save and
\* process_document
UploadProcess ==
    /\ upload = Idle
    /\ \E request \in UploadRequests :
        IF request \notin UploadFiles
        THEN /\ response' = Respond("/upload", 400, UploadRejection(request))
             /\ UNCHANGED <<embeddings, procVars, initVars, embedVars, confVars, inflight,
                            splitVars, current_document_id, current_document_text,
                            upload, reset, uploaded, session>>
        ELSE \E o \in CallSequences(<<CallOutcomes, CallOutcomes,
                                      EmbedOutcomes(embeddings), CallOutcomes>>) :
                /\ process_document(request, o[1], o[2], o[3], o[4])
                /\ IF last'.result.raised
                   THEN /\ response' = Respond("/upload", 500, UploadFailed)
                        /\ UNCHANGED <<upload, uploaded>>
                   ELSE /\ upload' = [pc |-> "298", file |-> request,
                                      document_id |-> last'.result.value]
                        /\ uploaded' = Put(uploaded, last'.result.value, request)
                        /\ UNCHANGED response
                /\ UNCHANGED <<current_document_id, current_document_text, reset, session>>

\* line 298: current_document_id = document_id
UploadSetId ==
    /\ upload.pc = "298"
    /\ current_document_id' = upload.document_id
    /\ upload' = [upload EXCEPT !.pc = "299"]
    /\ UNCHANGED <<embeddings, procVars, initVars, embedVars, confVars, inflight, splitVars,
                   current_document_text, reset, response, uploaded, session>>

\* line 299: current_document_text = extract_text_from_pdf(file_path)
UploadSetText ==
    /\ upload.pc = "299"
    /\ \E rd \in CallOutcomes :
        LET extracted == extract_text_from_pdf(upload.file, rd)
        IN  IF extracted.raised
            THEN /\ response' = Respond("/upload", 500, UploadFailed)
                 /\ upload' = Idle
                 /\ UNCHANGED current_document_text
            ELSE /\ current_document_text' = extracted.value
                 /\ upload' = [upload EXCEPT !.pc = "302"]
                 /\ UNCHANGED response
    /\ UNCHANGED <<embeddings, procVars, initVars, embedVars, confVars, inflight, splitVars,
                   current_document_id, reset, uploaded, session>>

\* lines 302-310: os.remove(file_path) and the response; rm is what
\* os.remove does
UploadReturn ==
    /\ upload.pc = "302"
    /\ \E rm \in CallOutcomes :
        IF rm = "raise"
        THEN /\ response' = Respond("/upload", 500, UploadFailed)
             /\ UNCHANGED session
        ELSE /\ response' = Respond("/upload", 200,
                                    [success |-> TRUE,
                                     document_id |-> upload.document_id,
                                     filename |-> upload.file.filename])
             /\ session' = "uploaded"
    /\ upload' = Idle
    /\ UNCHANGED <<embeddings, procVars, initVars, embedVars, confVars, inflight, splitVars,
                   current_document_id, current_document_text, reset, uploaded>>

\* lines 449-452
ResetSucceeded == [success |-> TRUE, message |-> "Session reset successfully"]

\* reset_session, lines 444-445: the test of current_document_id and
\* clear_document; with no current document, the response of lines 449-452
ResetClear ==
    /\ reset = Idle
    /\ IF current_document_id # NoId
       THEN \E dl \in CallOutcomes :
                /\ clear_document(current_document_id, dl)
                /\ reset' = [pc |-> "446", document_id |-> current_document_id,
                             delete_collection |-> dl]
                /\ UNCHANGED <<response, session>>
       ELSE /\ response' = Respond("/reset", 200, ResetSucceeded)
            /\ session' = "no document"
            /\ UNCHANGED <<client, collections, last, reset>>
    /\ UNCHANGED <<embeddings, issued, initVars, embedVars, confVars, inflight, splitVars,
                   current_document_id, current_document_text, upload, uploaded>>

\* line 446: current_document_id = None
ResetClearId ==
    /\ reset.pc = "446"
    /\ current_document_id' = NoId
    /\ reset' = [reset EXCEPT !.pc = "447"]
    /\ UNCHANGED <<embeddings, procVars, initVars, embedVars, confVars, inflight, splitVars,
                   current_document_text, upload, response, uploaded, session>>

\* lines 447-452: current_document_text = None and the response
ResetReturn ==
    /\ reset.pc = "447"
    /\ current_document_text' = None
    /\ response' = [Respond("/reset", 200, ResetSucceeded) EXCEPT
                        !.document_id = reset.document_id]
    /\ session' = "no document"
    /\ reset' = Idle
    /\ UNCHANGED <<embeddings, procVars, initVars, embedVars, confVars, inflight, splitVars,
                   current_document_id, upload, uploaded>>

\* analyze_document_content (lines 63-71) and answer_question_with_content
\* (lines 207-218): what they return is computed from the text they are
\* given and from nothing else
analyze_document_content(full_text, analysis_type) ==
    [success |-> TRUE, kind |-> analysis_type, text |-> full_text]

answer_question_with_content(question, document_text) ==
    [success |-> TRUE, kind |-> question, text |-> document_text]

ReadingEndpoints == {"/ask", "/smart-summary", "/red-flags", "/suggested-questions"}

\* The argument analyze_document_content gets from each endpoint
AnalysisType(endpoint) ==
    CASE endpoint = "/smart-summary" -> "summary"
      [] endpoint = "/red-flags"     -> "red_flags"
      [] OTHER                       -> "questions"

\* ask_question (lines 409-437), get_smart_summary (317-335),
\* detect_red_flags (336-357), get_suggested_questions (359-403)
Endpoint ==
    /\ \E endpoint \in ReadingEndpoints, question \in Questions :
        response' =
            IF current_document_id = NoId \/ current_document_text = None
            THEN Respond(endpoint, 400, [error |-> NoDocumentUploaded])
            ELSE IF endpoint # "/ask"
            THEN Respond(endpoint, 200,
                         analyze_document_content(current_document_text,
                                                  AnalysisType(endpoint)))
            ELSE IF question = "no question"
            THEN Respond(endpoint, 400, [error |-> "No question provided"])
            ELSE IF strip(question) = ""
            THEN Respond(endpoint, 400, [error |-> "Question cannot be empty"])
            ELSE Respond(endpoint, 200,
                         answer_question_with_content(strip(question),
                                                      current_document_text))
    /\ UNCHANGED <<embeddings, procVars, initVars, embedVars, confVars, inflight, splitVars,
                   current_document_id, current_document_text, upload, reset, uploaded,
                   session>>

----------------------------------------------------------------------------
(* process_document as the store sees it: create_collection (line 142) and *)
(* collection.add (line 172) are two calls, and nothing in the processor   *)
(* keeps another request thread from calling in between. Every call of     *)
(* these two steps that can succeed does.                                  *)

\* lines 125-145: uuid4, extract_text_from_pdf, chunk_text, create_collection
ProcessCreate ==
    \E file \in Files :
        LET document_id == issued + 1
            extracted   == extract_text_from_pdf(file, "ok")
            name        == collection_name(document_id)
        IN  /\ inflight = NoCall
            /\ issued < MaxDocs
            /\ issued' = document_id
            /\ IF extracted.raised
               THEN /\ last' = [op |-> "process_document", file |-> file,
                                document_id |-> document_id, provider |-> embeddings,
                                stopped |-> "extract",
                                result |-> Raised(<<"Error processing document",
                                                    extracted.error>>)]
                    /\ UNCHANGED <<client, inflight>>
               ELSE /\ client' = Put(client, name,
                                     NewCollection(document_id, file.filename))
                    /\ inflight' = [op |-> "process_document", file |-> file,
                                    document_id |-> document_id,
                                    chunks |-> chunk_text(extracted.value)]
                    /\ last' = last
            /\ UNCHANGED <<embeddings, collections, initVars, embedVars, confVars, splitVars, appVars>>

\* lines 147-186: the entries, embed_documents, collection.add, the cache
\* entry and the return; collection.add raises when the collection is gone
ProcessAdd ==
    LET document_id == inflight.document_id
        name        == collection_name(document_id)
        vectors     == embed_documents(embeddings, inflight.chunks)
        entries     == BuildEntries(document_id, inflight.file.filename,
                                    inflight.chunks, vectors)
        call(res, stopped) ==
            [op |-> "process_document", file |-> inflight.file,
             document_id |-> document_id, provider |-> embeddings,
             stopped |-> stopped, result |-> res]
    IN  /\ inflight # NoCall
        /\ inflight' = NoCall
        /\ IF name \notin DOMAIN client
           THEN /\ last' = call(Raised(<<"Error processing document",
                                         <<"collection.add">>>>), "add")
                /\ UNCHANGED <<client, collections>>
           ELSE /\ client' = [client EXCEPT ![name].entries = entries]
                /\ collections' = Put(collections, document_id, name)
                /\ last' = call(Returned(document_id), "return")
        /\ UNCHANGED <<embeddings, issued, initVars, embedVars, confVars, splitVars, appVars>>

----------------------------------------------------------------------------
(* QuestionAnswerer (question_answerer.py); its document_processor is the  *)
(* processor above                                                         *)

\* line 82: k=5
AnswerK == 5

\* line 98: chunk['similarity_score'] > 0.3
RelevanceFloor == 30

\* line 125: relevant_chunks[:3] and min(3, len(relevant_chunks))
TopChunks == 3

\* lines 153 and 155: the thresholds on avg_similarity
HighSimilarity == 80
MediumSimilarity == 60

\* lines 153 and 155: the thresholds on num_sources
HighSources == 3
MediumSources == 2

\* line 98 with >= for >
IsRelevantInclusive(chunk) == chunk.similarity_score >= RelevanceFloor

\* lines 96-104 without the test of line 98
IsRelevantAnyScore(chunk) == TRUE

\* line 98
IsRelevant(chunk) == chunk.similarity_score > RelevanceFloor

\* lines 96-104: the positions of relevant_chunks that pass line 98, in order
RelevantPositions(relevant_chunks) ==
    SelectSeq([i \in 1 .. Len(relevant_chunks) |-> i],
              LAMBDA i : IsRelevant(relevant_chunks[i]))

\* line 99: f"[Excerpt {i+1}]\n{chunk['content']}", i counted from 0
ContextParts(relevant_chunks) ==
    LET at == RelevantPositions(relevant_chunks)
    IN  [j \in 1 .. Len(at) |->
            [excerpt |-> at[j], content |-> relevant_chunks[at[j]].content]]

\* lines 100-104; every chunk text of the model is shorter than 200
Sources(relevant_chunks) ==
    LET at == RelevantPositions(relevant_chunks)
    IN  [j \in 1 .. Len(at) |->
            [chunk_index      |-> relevant_chunks[at[j]].chunk_index,
             similarity_score |-> relevant_chunks[at[j]].similarity_score,
             content_preview  |-> relevant_chunks[at[j]].content]]

RECURSIVE SumScores(_)
SumScores(chunks) ==
    IF chunks = <<>> THEN 0
    ELSE chunks[1].similarity_score + SumScores(Tail(chunks))

\* line 125: the average as the sum and the divisor
avg_similarity(relevant_chunks) ==
    [sum |-> SumScores(Prefix(relevant_chunks, TopChunks)),
     n   |-> IF Len(relevant_chunks) < TopChunks THEN Len(relevant_chunks)
             ELSE TopChunks]

\* avg > threshold, for a positive divisor
AvgAbove(avg, threshold) == avg.sum > threshold * avg.n

\* _determine_confidence with >= for > on avg_similarity
determine_confidence_inclusive(avg, num_sources) ==
    IF avg.sum >= HighSimilarity * avg.n /\ num_sources >= HighSources THEN "high"
    ELSE IF avg.sum >= MediumSimilarity * avg.n /\ num_sources >= MediumSources
         THEN "medium"
    ELSE "low"

\* _determine_confidence (lines 142-158)
determine_confidence(avg, num_sources) ==
    IF AvgAbove(avg, HighSimilarity) /\ num_sources >= HighSources THEN "high"
    ELSE IF AvgAbove(avg, MediumSimilarity) /\ num_sources >= MediumSources THEN "medium"
    ELSE "low"

\* lines 87-90, 108-111 and 136-140: the three returns that carry no sources.
\* (error_answer_medium is lines 136-140 with the label of app.py's
\* result.get('confidence', 'medium').)
no_information_answer ==
    [answer |-> "no relevant information", sources |-> <<>>, confidence |-> "low"]

not_relevant_answer ==
    [answer |-> "not sufficiently relevant", sources |-> <<>>, confidence |-> "low"]

error_answer_medium ==
    [answer |-> "error", sources |-> <<>>, confidence |-> "medium"]

error_answer ==
    [answer |-> "error", sources |-> <<>>, confidence |-> "low"]

\* lines 125-133: the return after self.llm.invoke
generated_answer(relevant_chunks) ==
    [answer |-> "generated", sources |-> Sources(relevant_chunks),
     confidence |-> determine_confidence(avg_similarity(relevant_chunks),
                                         Len(ContextParts(relevant_chunks))),
     context_chunks_used |-> Len(ContextParts(relevant_chunks))]

\* answer_question dropping the document's collection when the LLM raises
answer_question_dropping_index(question, document_id, g, em, qr, answer, llm) ==
    LET found  == search_similar_chunks(question, document_id, AnswerK, g, em, qr, answer)
        relevant_chunks == found.result.value
        context_parts   == ContextParts(relevant_chunks)
        sources         == Sources(relevant_chunks)
        call(parts, srcs, invoked, ret) ==
            [op |-> "answer_question", question |-> question,
             document_id |-> document_id,
             indexed |-> collection_name(document_id) \in DOMAIN client,
             searched |-> found.result, context_parts |-> parts,
             sources |-> srcs, llm |-> invoked, result |-> Returned(ret)]
        generated == ~found.result.raised /\ context_parts # <<>>
    IN
    /\ IF generated /\ llm = "raise"
       THEN /\ client' = Del(client, collection_name(document_id))
            /\ collections' = Del(found.collections, document_id)
       ELSE /\ client' = client
            /\ collections' = found.collections
    /\ IF found.result.raised
       THEN last' = call(<<>>, <<>>, "not invoked", error_answer)
       ELSE IF relevant_chunks = <<>>
       THEN last' = call(<<>>, <<>>, "not invoked", no_information_answer)
       ELSE IF context_parts = <<>>
       THEN last' = call(context_parts, sources, "not invoked", not_relevant_answer)
       ELSE IF llm = "raise"
       THEN last' = call(context_parts, sources, "raise", error_answer)
       ELSE last' = call(context_parts, sources, "ok",
                         generated_answer(relevant_chunks))
    /\ UNCHANGED <<embeddings, issued, initVars, embedVars, confVars, inflight, splitVars, appVars>>

\* answer_question (lines 66-140). g, em, qr, answer as for
\* search_similar_chunks; llm is what self.llm.invoke does.
answer_question(question, document_id, g, em, qr, answer, llm) ==
    LET found  == search_similar_chunks(question, document_id, AnswerK, g, em, qr, answer)
        relevant_chunks == found.result.value
        context_parts   == ContextParts(relevant_chunks)
        sources         == Sources(relevant_chunks)
        call(parts, srcs, invoked, ret) ==
            [op |-> "answer_question", question |-> question,
             document_id |-> document_id,
             indexed |-> collection_name(document_id) \in DOMAIN client,
             searched |-> found.result, context_parts |-> parts,
             sources |-> srcs, llm |-> invoked, result |-> Returned(ret)]
    IN
    /\ collections' = found.collections
    /\ IF found.result.raised
       THEN last' = call(<<>>, <<>>, "not invoked", error_answer)
       ELSE IF relevant_chunks = <<>>
       THEN last' = call(<<>>, <<>>, "not invoked", no_information_answer)
       ELSE IF context_parts = <<>>
       THEN last' = call(context_parts, sources, "not invoked", not_relevant_answer)
       ELSE IF llm = "raise"
       THEN last' = call(context_parts, sources, "raise", error_answer)
       ELSE last' = call(context_parts, sources, "ok",
                         generated_answer(relevant_chunks))
    /\ UNCHANGED <<embeddings, client, issued, initVars, embedVars, confVars, inflight, splitVars, appVars>>

AnswerQuestion ==
    \E question \in Queries, document_id \in DocIds,
       o \in CallSequences(<<CallOutcomes, EmbedOutcomes(embeddings), CallOutcomes,
                             CallOutcomes>>) :
    \E answer \in StoreAnswers(question, document_id, AnswerK, o[1]) :
        answer_question(question, document_id, o[1], o[2], o[3], answer, o[4])

----------------------------------------------------------------------------
(* answer_question from line 85 on, one step per stage, on what the search *)
(* returned (c_chunks) and with an LLM that answers                        *)

\* The similarity scores a search result carries, and how many results the
\* lists of SpecConfidence hold at most (the search returns at most AnswerK).
ScoreValues == {90, 85, 82, 70, 65, 50, 30, 20}
MaxResults == 3

\* line 228 of document_processor.py: results arrive sorted, best first
ScoreLists ==
    {s \in UNION {[1 .. n -> ScoreValues] : n \in 0 .. MaxResults} :
        \A i \in 1 .. Len(s) - 1 : s[i] >= s[i + 1]}

\* lines 218-225 of document_processor.py: the formatted results with the
\* scores s
ResultsScored(s) ==
    [i \in 1 .. Len(s) |->
        [content |-> "chunk", metadata |-> [chunk_index |-> i - 1],
         similarity_score |-> s[i], chunk_index |-> i - 1]]

NotScored == [sum |-> 0, n |-> 0]

\* lines 85-111: the empty result, the filter loop and the empty context
ConfFilter ==
    /\ c_pc = "filter"
    /\ IF c_chunks = <<>>
       THEN /\ c_out' = [context_parts |-> <<>>, sources |-> <<>>,
                         avg |-> NotScored, result |-> no_information_answer]
            /\ c_pc' = "done"
       ELSE IF ContextParts(c_chunks) = <<>>
       THEN /\ c_out' = [context_parts |-> <<>>, sources |-> Sources(c_chunks),
                         avg |-> NotScored, result |-> not_relevant_answer]
            /\ c_pc' = "done"
       ELSE /\ c_out' = [context_parts |-> ContextParts(c_chunks),
                         sources |-> Sources(c_chunks),
                         avg |-> NotScored, result |-> NoCall]
            /\ c_pc' = "score"
    /\ UNCHANGED <<c_chunks, embeddings, procVars, initVars, embedVars, inflight, splitVars, appVars>>

\* lines 113-133: the LLM answers; avg_similarity, the label and the return
ConfScore ==
    /\ c_pc = "score"
    /\ c_out' = [c_out EXCEPT !.avg = avg_similarity(c_chunks),
                              !.result = generated_answer(c_chunks)]
    /\ c_pc' = "done"
    /\ UNCHANGED <<c_chunks, embeddings, procVars, initVars, embedVars, inflight, splitVars, appVars>>

----------------------------------------------------------------------------
(* chunk_text (lines 118-121) on a text of characters: the                 *)
(* RecursiveCharacterTextSplitter configured at lines 39-44 (langchain:    *)
(* _split_text, _split_text_with_regex, _merge_splits, _join_docs, with    *)
(* the defaults keep_separator=True and strip_whitespace=True), then the   *)
(* strip and the filter of line 121. A string is a sequence of characters. *)

\* line 40: chunk_size=1000
ChunkSize == 1000

\* line 41: chunk_overlap=200
ChunkOverlap == 200

NL == "\n"

\* line 43 without the last separator
SeparatorsNoCharacterLevel == <<<<NL, NL>>, <<NL>>, <<" ">>>>

\* line 43: separators=["\n\n", "\n", " ", ""]
Separators == <<<<NL, NL>>, <<NL>>, <<" ">>, <<>>>>

\* the characters str.strip() removes, of those the texts are made of
Whitespace == {" ", NL}

\* c repeated n times
Rep(c, n) == [i \in 1 .. n |-> c]

\* str.strip() (line 121, and _join_docs with strip_whitespace)
RECURSIVE LStrip(_)
LStrip(str) ==
    IF str # <<>> /\ str[1] \in Whitespace THEN LStrip(Tail(str)) ELSE str

RECURSIVE RStrip(_)
RStrip(str) ==
    IF str # <<>> /\ str[Len(str)] \in Whitespace
    THEN RStrip(SubSeq(str, 1, Len(str) - 1))
    ELSE str

Strip(str) == RStrip(LStrip(str))

\* re.search(separator, text) for a separator that is not ""
Occurs(separator, text) ==
    \E i \in 1 .. Len(text) - Len(separator) + 1 :
        SubSeq(text, i, i + Len(separator) - 1) = separator

\* where re.split finds the separator: leftmost first, not overlapping
RECURSIVE MatchesFrom(_, _, _)
MatchesFrom(text, separator, from) ==
    LET at == {i \in from .. Len(text) - Len(separator) + 1 :
                  SubSeq(text, i, i + Len(separator) - 1) = separator}
    IN  IF at = {} THEN <<>>
        ELSE LET m == CHOOSE i \in at : \A j \in at : i <= j
             IN  <<m>> \o MatchesFrom(text, separator, m + Len(separator))

\* _split_text_with_regex(text, separator, keep_separator=True): list(text)
\* for "", else the text before the first separator and then each separator
\* with the text that follows it; empty pieces dropped
split_text_with_regex(text, separator) ==
    IF separator = <<>>
    THEN [i \in 1 .. Len(text) |-> <<text[i]>>]
    ELSE LET ms == MatchesFrom(text, separator, 1)
             k  == Len(ms)
             piece(j) ==
                 IF j = 0
                 THEN SubSeq(text, 1, IF k = 0 THEN Len(text) ELSE ms[1] - 1)
                 ELSE SubSeq(text, ms[j], IF j < k THEN ms[j + 1] - 1 ELSE Len(text))
         IN  SelectSeq([j \in 1 .. k + 1 |-> piece(j - 1)], LAMBDA str : str # <<>>)

\* _split_text choosing its separator: the first of separators that is "" or
\* occurs in text, and the separators after it; the last one and none when
\* there is no such separator
SeparatorIndex(text, separators) ==
    LET hits == {i \in 1 .. Len(separators) :
                    separators[i] = <<>> \/ Occurs(separators[i], text)}
    IN  IF hits = {} THEN 0 ELSE CHOOSE i \in hits : \A j \in hits : i <= j

ChosenSeparator(text, separators) ==
    IF SeparatorIndex(text, separators) = 0 THEN separators[Len(separators)]
    ELSE separators[SeparatorIndex(text, separators)]

NewSeparators(text, separators) ==
    LET i == SeparatorIndex(text, separators)
    IN  IF i = 0 \/ separators[i] = <<>> THEN <<>>
        ELSE SubSeq(separators, i + 1, Len(separators))

\* a call _split_text(text, separators) before its first statement
SplitCall(text, separators) ==
    [text |-> text, separators |-> separators, new_separators |-> <<>>,
     splits |-> <<>>, i |-> 0, good_splits |-> <<>>]

\* _merge_splits(splits, separator) before its loop. keep_separator makes
\* the separator it joins with "", so separator_len is 0, and current_doc is
\* kept as the lengths of its pieces and their concatenation.
MergeCall(splits) ==
    [splits |-> splits, i |-> 1, current_doc |-> <<>>, joined |-> <<>>,
     total |-> 0, popping |-> FALSE]

Top == t_stack[Len(t_stack)]

SetTop(frame) == [t_stack EXCEPT ![Len(t_stack)] = frame]

\* _join_docs and docs.append(doc): the chunk, unless it strips to ""
Emit(final, joined) ==
    IF Strip(joined) = <<>> THEN final ELSE Append(final, Strip(joined))

\* _split_text up to its for loop: the separator and the splits
SplitTextCall ==
    /\ t_pc = "call"
    /\ t_stack' = SetTop([Top EXCEPT
            !.new_separators = NewSeparators(Top.text, Top.separators),
            !.splits = split_text_with_regex(
                           Top.text, ChosenSeparator(Top.text, Top.separators)),
            !.i = 1])
    /\ t_pc' = "for"
    /\ UNCHANGED <<t_text, t_merge, t_final, t_chunks>>
    /\ UNCHANGED <<embeddings, procVars, initVars, embedVars, confVars, inflight, appVars>>

\* one iteration of for s in splits: a split shorter than chunk_size joins
\* _good_splits; another one first has _good_splits merged, then is kept as
\* it is when no separator is left and split further otherwise
SplitTextFor ==
    /\ t_pc = "for"
    /\ Top.i <= Len(Top.splits)
    /\ LET str == Top.splits[Top.i]
       IN  IF Len(str) < ChunkSize
           THEN /\ t_stack' = SetTop([Top EXCEPT
                        !.good_splits = Append(Top.good_splits, str),
                        !.i = Top.i + 1])
                /\ UNCHANGED <<t_pc, t_merge, t_final>>
           ELSE IF Top.good_splits # <<>>
           THEN /\ t_merge' = MergeCall(Top.good_splits)
                /\ t_stack' = SetTop([Top EXCEPT !.good_splits = <<>>])
                /\ t_pc' = "merge"
                /\ UNCHANGED t_final
           ELSE IF Top.new_separators = <<>>
           THEN /\ t_final' = Append(t_final, str)
                /\ t_stack' = SetTop([Top EXCEPT !.i = Top.i + 1])
                /\ UNCHANGED <<t_pc, t_merge>>
           ELSE /\ t_stack' = Append(SetTop([Top EXCEPT !.i = Top.i + 1]),
                                     SplitCall(str, Top.new_separators))
                /\ t_pc' = "call"
                /\ UNCHANGED <<t_merge, t_final>>
    /\ UNCHANGED <<t_text, t_chunks>>
    /\ UNCHANGED <<embeddings, procVars, initVars, embedVars, confVars, inflight, appVars>>

\* after the loop: the remaining _good_splits are merged, then the call
\* returns to the call that made it, or to chunk_text
SplitTextReturn ==
    /\ t_pc = "for"
    /\ Top.i > Len(Top.splits)
    /\ IF Top.good_splits # <<>>
       THEN /\ t_merge' = MergeCall(Top.good_splits)
            /\ t_stack' = SetTop([Top EXCEPT !.good_splits = <<>>])
            /\ t_pc' = "merge"
       ELSE /\ t_stack' = SubSeq(t_stack, 1, Len(t_stack) - 1)
            /\ t_pc' = IF Len(t_stack) = 1 THEN "strip" ELSE "for"
            /\ UNCHANGED t_merge
    /\ UNCHANGED <<t_text, t_final, t_chunks>>
    /\ UNCHANGED <<embeddings, procVars, initVars, embedVars, confVars, inflight, appVars>>

\* current_doc.append(d) and total += _len, ending an iteration
MergeAppend(d) ==
    [t_merge EXCEPT !.current_doc = Append(t_merge.current_doc, Len(d)),
                    !.joined = t_merge.joined \o d,
                    !.total = t_merge.total + Len(d),
                    !.i = t_merge.i + 1,
                    !.popping = FALSE]

\* one iteration of for d in splits, up to the while loop: when d would
\* take current_doc over chunk_size, current_doc is joined into a chunk
MergeSplitsStep ==
    /\ t_pc = "merge"
    /\ ~t_merge.popping
    /\ t_merge.i <= Len(t_merge.splits)
    /\ LET d == t_merge.splits[t_merge.i]
       IN  IF t_merge.total + Len(d) > ChunkSize /\ t_merge.current_doc # <<>>
           THEN /\ t_final' = Emit(t_final, t_merge.joined)
                /\ t_merge' = [t_merge EXCEPT !.popping = TRUE]
           ELSE /\ t_merge' = MergeAppend(d)
                /\ UNCHANGED t_final
    /\ UNCHANGED <<t_text, t_pc, t_stack, t_chunks>>
    /\ UNCHANGED <<embeddings, procVars, initVars, embedVars, confVars, inflight, appVars>>

\* one iteration of the while loop: pieces leave the front of current_doc
\* until at most chunk_overlap is left and d fits; then d is appended
MergeSplitsPop ==
    /\ t_pc = "merge"
    /\ t_merge.popping
    /\ LET d == t_merge.splits[t_merge.i]
       IN  IF \/ t_merge.total > ChunkOverlap
              \/ (t_merge.total + Len(d) > ChunkSize /\ t_merge.total > 0)
           THEN t_merge' = [t_merge EXCEPT
                    !.total = t_merge.total - t_merge.current_doc[1],
                    !.current_doc = Tail(t_merge.current_doc),
                    !.joined = SubSeq(t_merge.joined, t_merge.current_doc[1] + 1,
                                      Len(t_merge.joined))]
           ELSE t_merge' = MergeAppend(d)
    /\ UNCHANGED <<t_text, t_pc, t_stack, t_final, t_chunks>>
    /\ UNCHANGED <<embeddings, procVars, initVars, embedVars, confVars, inflight, appVars>>

\* after the loop: what is left in current_doc is the last chunk
MergeSplitsReturn ==
    /\ t_pc = "merge"
    /\ ~t_merge.popping
    /\ t_merge.i > Len(t_merge.splits)
    /\ t_final' = Emit(t_final, t_merge.joined)
    /\ t_merge' = NoCall
    /\ t_pc' = "for"
    /\ UNCHANGED <<t_text, t_stack, t_chunks>>
    /\ UNCHANGED <<embeddings, procVars, initVars, embedVars, confVars, inflight, appVars>>

\* line 121: [chunk.strip() for chunk in chunks if chunk.strip()]
ChunkTextReturn ==
    /\ t_pc = "strip"
    /\ t_chunks' = SelectSeq([i \in 1 .. Len(t_final) |-> Strip(t_final[i])],
                             LAMBDA chunk : chunk # <<>>)
    /\ t_pc' = "done"
    /\ UNCHANGED <<t_text, t_stack, t_merge, t_final>>
    /\ UNCHANGED <<embeddings, procVars, initVars, embedVars, confVars, inflight, appVars>>

\* The texts chunk_text is given: around chunk_size and beyond it, without
\* any separator, with spaces, with line breaks and with paragraph breaks.
Word(n) == Rep("x", n)

Texts ==
    {<<>>, Rep(" ", 3), <<NL, NL>>, Word(1), Word(2) \o <<" ">> \o Word(3)}
    \cup {Word(n) : n \in {ChunkSize - 1, ChunkSize, ChunkSize + 1,
                           2 * ChunkSize - ChunkOverlap + 1}}
    \cup {Word(400) \o <<" ">> \o Word(400) \o <<" ">> \o Word(400) \o <<" ">>
            \o Word(300),
          <<" ">> \o Word(3) \o <<" ">> \o Word(ChunkSize + 200) \o <<" ">>
            \o Word(3) \o <<" ">>,
          Word(700) \o <<NL>> \o Word(600) \o <<NL, NL, NL>> \o Word(ChunkSize)
            \o <<" ">> \o Word(50),
          Word(500) \o <<NL, NL>> \o Word(300) \o <<" ">> \o Word(300)
            \o <<NL, NL>> \o Word(200)}

----------------------------------------------------------------------------
(* Specifications                                                          *)

\* lines 27-33 and 47: an empty store and self.collections = {}
ProcInit ==
    /\ client = <<>>
    /\ collections = <<>>
    /\ issued = 0
    /\ last = NoCall

InitIdle  == env = NoEnv /\ initpc = "done" /\ tried = <<>>
EmbedIdle == e_text = "" /\ e_pc = "idle" /\ e_i = 0 /\ e_vector = <<>>
ConfIdle  == c_chunks = <<>> /\ c_pc = "idle" /\ c_out = NoCall
NoInsert  == inflight = NoCall
\* app.py lines 33-34, and no request handled yet
AppIdle ==
    /\ current_document_id = NoId
    /\ current_document_text = None
    /\ upload = Idle
    /\ reset = Idle
    /\ response = NoResponse
    /\ uploaded = <<>>
    /\ session = "no document"
SplitIdle ==
    /\ t_text = <<>>
    /\ t_pc = "idle"
    /\ t_stack = <<>>
    /\ t_merge = NoCall
    /\ t_final = <<>>
    /\ t_chunks = <<>>

\* __init__ (lines 24-49) entering _initialize_embeddings
InitConstructing ==
    /\ embeddings = None
    /\ env \in Envs
    /\ initpc = "openai"
    /\ tried = <<>>
    /\ ProcInit
    /\ EmbedIdle
    /\ ConfIdle
    /\ NoInsert
    /\ SplitIdle
    /\ AppIdle

NextInit == TryOpenAI \/ TryByteZ \/ TryLocal \/ UseSimple

SpecInit == InitConstructing /\ [][NextInit]_vars

\* a call of SimpleEmbeddings.embed_query(e_text)
InitEmbed ==
    /\ embeddings = SimpleEmbeddings
    /\ e_text \in EmbedTexts
    /\ e_pc = "hash"
    /\ e_i = 0
    /\ e_vector = <<>>
    /\ ProcInit
    /\ InitIdle
    /\ ConfIdle
    /\ NoInsert
    /\ SplitIdle
    /\ AppIdle

NextEmbed == EmbedHash \/ EmbedHexPair \/ EmbedPad

SpecEmbed == InitEmbed /\ [][NextEmbed]_vars

\* The processor after construction: __init__ has adopted one of the four
\* providers (each is the outcome of SpecInit in some environment).
Init ==
    /\ embeddings \in Providers
    /\ ProcInit
    /\ InitIdle
    /\ EmbedIdle
    /\ ConfIdle
    /\ NoInsert
    /\ SplitIdle
    /\ AppIdle

\* answer_question holding the result of its search
InitConfidence ==
    /\ embeddings \in Providers
    /\ c_chunks \in {ResultsScored(s) : s \in ScoreLists}
    /\ c_pc = "filter"
    /\ c_out = NoCall
    /\ ProcInit
    /\ InitIdle
    /\ EmbedIdle
    /\ NoInsert
    /\ SplitIdle
    /\ AppIdle

NextConfidence == ConfFilter \/ ConfScore

SpecConfidence == InitConfidence /\ [][NextConfidence]_vars

\* a call of chunk_text(t_text)
InitSplit ==
    /\ embeddings \in Providers
    /\ t_text \in Texts
    /\ t_pc = "call"
    /\ t_stack = <<SplitCall(t_text, Separators)>>
    /\ t_merge = NoCall
    /\ t_final = <<>>
    /\ t_chunks = <<>>
    /\ ProcInit
    /\ InitIdle
    /\ EmbedIdle
    /\ ConfIdle
    /\ inflight = NoCall
    /\ AppIdle

NextSplit ==
    \/ SplitTextCall
    \/ SplitTextFor
    \/ SplitTextReturn
    \/ MergeSplitsStep
    \/ MergeSplitsPop
    \/ MergeSplitsReturn
    \/ ChunkTextReturn

SpecSplit == InitSplit /\ [][NextSplit]_vars

\* The processor over the lifetimes of several processes
NextRestart ==
    \/ ProcessDocument
    \/ SearchSimilarChunks
    \/ Restart

SpecRestart == Init /\ [][NextRestart]_vars

\* The request handlers of app.py
NextApp ==
    \/ UploadProcess
    \/ UploadSetId
    \/ UploadSetText
    \/ UploadReturn
    \/ ResetClear
    \/ ResetClearId
    \/ ResetReturn
    \/ Endpoint

SpecApp == Init /\ [][NextApp]_vars

\* The request threads of app.run (app.py line 476) on one processor
NextThreads ==
    \/ ProcessCreate
    \/ ProcessAdd
    \/ SearchSimilarChunks
    \/ ClearDocument

SpecThreads == Init /\ [][NextThreads]_vars

Next ==
    \/ ProcessDocument
    \/ SearchSimilarChunks
    \/ ClearDocument
    \/ AnswerQuestion

Spec == Init /\ [][Next]_vars

----------------------------------------------------------------------------
(* Properties                                                              *)

\* Would embedding the probe string on candidate c give a non-empty vector
\* in environment e?
ProbePasses(e, c) ==
    CASE c = OpenAIEmbeddings -> OpenAIKeyUsable(e.openai_key) /\ e.openai = "ok"
      [] c = ByteZEmbeddings  -> ByteZKeyUsable(e.bytez_key) /\ e.bytez = "ok"
      [] c = LocalEmbeddings  -> e.load = "ok" /\ e.encode = "ok"
      [] OTHER                -> TRUE

FirstPassing(e) ==
    Candidates[CHOOSE i \in 1 .. Len(Candidates) :
                  /\ ProbePasses(e, Candidates[i])
                  /\ \A j \in 1 .. i - 1 : ~ProbePasses(e, Candidates[j])]

\* C1: when _initialize_embeddings returns, the adopted provider is the first
\* candidate, in the order OpenAI, ByteZ, local model, hash fallback, on
\* which embedding the probe string gives a non-empty vector, and the
\* candidates tried are exactly those up to the adopted one.
C1_FirstPassingProbeAdopted ==
    initpc = "done" =>
        /\ embeddings = FirstPassing(env)
        /\ tried # <<>>
        /\ tried[Len(tried)] = embeddings

\* C2: an ingest during which the adopted provider raised on the batch of
\* chunks does not fail: a later candidate embeds the batch and becomes the
\* provider of the following calls.
C2_BatchFallsBackToNextProvider ==
    (last.op = "process_document" /\ last.stopped = "embed") =>
        /\ ~last.result.raised
        /\ embeddings # last.provider

\* byte j (from 0) of the digest of text t
DigestByte(t, j) == 16 * HexDigest(t)[2 * j + 1] + HexDigest(t)[2 * j + 2]

DigestBytes(t) == Len(HexDigest(t)) \div 2

\* C3: for every text, the empty string included, embed_query of the hash
\* fallback runs to its return and returns a vector of exactly 384 entries,
\* entry i being byte (i mod 16) of the text's digest divided by 255, a
\* value in [0,1]; the vector is a function of the text alone.
C3_SimpleEmbeddingVector ==
    /\ e_pc \in {"hash", "pairs", "pad"} => ENABLED NextEmbed
    /\ e_pc = "done" =>
          /\ Len(e_vector) = 384
          /\ DigestBytes(e_text) = 16
          /\ \A i \in 0 .. Len(e_vector) - 1 :
                /\ e_vector[i + 1] = [num |-> DigestByte(e_text, i % 16), den |-> 255]
                /\ e_vector[i + 1] = e_vector[(i % 16) + 1]
                /\ 0 <= e_vector[i + 1].num
                /\ e_vector[i + 1].num <= e_vector[i + 1].den

C3_Witness == e_pc = "done" /\ e_text = "" /\ Len(e_vector) = 384

\* Is the collection as process_document fills it for a document: not
\* empty, one entry per chunk, in order?
FullyPopulated(collection) ==
    /\ Len(collection.entries) > 0
    /\ \A i \in 1 .. Len(collection.entries) :
          /\ collection.entries[i].metadata.chunk_count = Len(collection.entries)
          /\ collection.entries[i].metadata.chunk_index = i - 1

\* C4: after every ingest attempt, failed or not, each index the store
\* holds is fully populated; no empty or partly filled index exists.
C4_IndexFullOrAbsent ==
    \A name \in DOMAIN client : FullyPopulated(client[name])

\* C5: every chunk search_similar_chunks returns for document A is an entry
\* of A's own index and carries A as its owning document.
C5_NoCrossDocumentLeak ==
    (last.op = "search_similar_chunks" /\ ~last.result.raised) =>
        \A i \in 1 .. Len(last.result.value) :
            LET r == last.result.value[i]
                own == client[collection_name(last.document_id)].entries
            IN  /\ r.metadata.document_id = last.document_id
                /\ \E j \in 1 .. Len(own) :
                      /\ own[j].id = ChunkId(last.document_id, r.chunk_index)
                      /\ own[j].document = r.content
                      /\ own[j].metadata = r.metadata

\* two documents are indexed and a search of the second returned chunks
C5_Witness ==
    /\ last.op = "search_similar_chunks"
    /\ ~last.result.raised
    /\ last.document_id = 2
    /\ Len(last.result.value) > 1
    /\ \A d \in {1, 2} :
          /\ collection_name(d) \in DOMAIN client
          /\ Len(client[collection_name(d)].entries) > 0

IsClear(call) == call.op = "clear_document"

\* C6: clear_document never raises; it returns true exactly when the
\* document had an index and the call removed it, and then neither the
\* store nor self.collections holds the document; on a document without an
\* index it returns false, so a clear that follows at once on a clear that
\* left the document without an index returns false.
C6_ClearReportsRemoval ==
    /\ [](IsClear(last) =>
            LET name    == collection_name(last.document_id)
                removed == /\ last.indexed
                           /\ name \notin DOMAIN client
                           /\ last.document_id \notin DOMAIN collections
            IN  /\ ~last.result.raised
                /\ last.result.value \in BOOLEAN
                /\ last.result.value <=> removed
                /\ ~last.indexed => ~last.result.value)
    /\ [][(/\ IsClear(last) /\ IsClear(last')
           /\ last'.document_id = last.document_id
           /\ (last.result.value \/ ~last.indexed))
          => (~last'.result.raised /\ last'.result.value = FALSE)]_vars

\* a clear that removed an index while another document stays indexed
C6_Witness ==
    /\ IsClear(last)
    /\ last.indexed
    /\ last.result.value = TRUE
    /\ DOMAIN client # {}

\* the exception search_similar_chunks raises for a document without index
UnknownDocument(document_id) ==
    <<"Error searching document", "No collection found for document ID", document_id>>

\* C7: search_similar_chunks on a document id that has no index raises the
\* no-collection error to its caller and leaves the store and
\* self.collections exactly as they were.
C7_SearchUnknownDocument ==
    [][(/\ last'.op = "search_similar_chunks"
        /\ last' # last
        /\ collection_name(last'.document_id) \notin DOMAIN client)
       => (/\ last'.result.raised
           /\ last'.result.error = UnknownDocument(last'.document_id)
           /\ client' = client
           /\ collections' = collections
           /\ collection_name(last'.document_id) \notin DOMAIN client'
           /\ last'.document_id \notin DOMAIN collections')]_vars

\* a search of a document id that was issued and has no index, while
\* another document is indexed
C7_Witness ==
    /\ last.op = "search_similar_chunks"
    /\ ~last.indexed
    /\ last.document_id <= issued
    /\ last.result.raised
    /\ DOMAIN client # {}

\* C8: a successful search returns at most k results and at most as many
\* as the document has chunks, each scored 1 minus the store's distance
\* between the query vector and that chunk's vector, in non-increasing
\* order of score.
C8_SearchBoundedScoredSorted ==
    (last.op = "search_similar_chunks" /\ ~last.result.raised) =>
        LET results == last.result.value
            entries == client[collection_name(last.document_id)].entries
            q       == embed_query(embeddings, last.query)
        IN  /\ Len(results) <= last.k
            /\ Len(results) <= Len(entries)
            /\ \A i \in 1 .. Len(results) :
                  /\ results[i].chunk_index + 1 \in 1 .. Len(entries)
                  /\ results[i].similarity_score =
                        One - Distance(q, entries[results[i].chunk_index + 1].embedding)
            /\ \A i \in 1 .. Len(results) - 1 :
                  results[i].similarity_score >= results[i + 1].similarity_score

\* a search that returned several results with different scores
C8_Witness ==
    /\ last.op = "search_similar_chunks"
    /\ ~last.result.raised
    /\ Len(last.result.value) > 2
    /\ last.result.value[1].similarity_score
         > last.result.value[Len(last.result.value)].similarity_score

\* C9: results of equal score come in ascending chunk index order.
C9_TiesInChunkIndexOrder ==
    (last.op = "search_similar_chunks" /\ ~last.result.raised) =>
        \A i, j \in 1 .. Len(last.result.value) :
            (/\ i < j
             /\ last.result.value[i].similarity_score
                  = last.result.value[j].similarity_score)
            => last.result.value[i].chunk_index < last.result.value[j].chunk_index

\* C10: the context and the sources answer_question assembles hold exactly
\* the search results whose score is above 0.3, in the order of the search
\* results; a generated answer returns those sources.
C10_ContextIsResultsAboveFloor ==
    (last.op = "answer_question" /\ ~last.searched.raised) =>
        LET candidates == last.searched.value
            parts      == last.context_parts
        IN  /\ Len(last.sources) = Len(parts)
            /\ \A i \in 1 .. Len(candidates) :
                  (candidates[i].similarity_score > 30)
                     <=> (\E j \in 1 .. Len(parts) : parts[j].excerpt = i)
            /\ \A j \in 1 .. Len(parts) :
                  /\ parts[j].excerpt \in 1 .. Len(candidates)
                  /\ parts[j].content = candidates[parts[j].excerpt].content
                  /\ last.sources[j].chunk_index = candidates[parts[j].excerpt].chunk_index
                  /\ last.sources[j].similarity_score
                        = candidates[parts[j].excerpt].similarity_score
                  /\ last.sources[j].similarity_score > 30
            /\ \A j \in 1 .. Len(parts) - 1 :
                  /\ parts[j].excerpt < parts[j + 1].excerpt
                  /\ last.sources[j].similarity_score
                        >= last.sources[j + 1].similarity_score
            /\ last.result.value.answer = "generated"
                  => last.result.value.sources = last.sources

\* an answer whose search gave results above, at and below the floor
C10_Witness ==
    /\ last.op = "answer_question"
    /\ ~last.searched.raised
    /\ Len(last.context_parts) > 1
    /\ \E i, j \in 1 .. Len(last.searched.value) :
          /\ last.searched.value[i].similarity_score = 30
          /\ last.searched.value[j].similarity_score < 30
    /\ last.result.value.answer = "generated"

\* C11: when the search gives no result, or only results scored 0.3 or less,
\* answer_question returns an empty source list and confidence low, builds
\* no context and does not invoke the LLM.
C11_NothingAboveFloorIsLowAndUngenerated ==
    (/\ last.op = "answer_question"
     /\ ~last.searched.raised
     /\ \A i \in 1 .. Len(last.searched.value) :
           last.searched.value[i].similarity_score <= 30)
    => (/\ last.context_parts = <<>>
        /\ last.sources = <<>>
        /\ ~last.result.raised
        /\ last.result.value.sources = <<>>
        /\ last.result.value.confidence = "low"
        /\ last.llm = "not invoked")

\* an answer whose search gave results, none of them above the floor
C11_Witness ==
    /\ last.op = "answer_question"
    /\ ~last.searched.raised
    /\ Len(last.searched.value) > 1
    /\ \A i \in 1 .. Len(last.searched.value) :
          last.searched.value[i].similarity_score <= 30
    /\ last.result.value.answer = "not sufficiently relevant"

\* the scores of the results above the floor (the surviving candidates), in
\* result order
SurvivingScores(chunks) ==
    SelectSeq([i \in 1 .. Len(chunks) |-> chunks[i].similarity_score],
              LAMBDA x : x > 30)

RECURSIVE Sum(_)
Sum(xs) == IF xs = <<>> THEN 0 ELSE xs[1] + Sum(Tail(xs))

\* C12: the average behind the confidence label is the mean of the best
\* min(3, surviving count) surviving scores: results at or below the floor
\* add nothing to the sum and nothing to the divisor.
C12_MeanOverSurvivingOnly ==
    (c_pc = "done" /\ c_out.result.answer = "generated") =>
        LET surviving == SurvivingScores(c_chunks)
            m   == IF Len(surviving) < 3 THEN Len(surviving) ELSE 3
            top == [i \in 1 .. m |-> surviving[i]]
        IN  c_out.avg.sum * m = Sum(top) * c_out.avg.n

C14_RetrievalFailureIsLow ==
    (last.op = "answer_question" /\ last.searched.raised) =>
        /\ ~last.result.raised
        /\ last.result.value.confidence = "low"
        /\ last.result.value.sources = <<>>
        /\ last.context_parts = <<>>
        /\ last.sources = <<>>
        /\ last.llm = "not invoked"

\* an answer on an indexed document whose query could not be embedded
C14_Witness ==
    /\ last.op = "answer_question"
    /\ last.indexed
    /\ last.searched.raised
    /\ last.searched.error = <<"Error searching document", "embed_query">>
    /\ last.result.value.confidence = "low"

\* C15: a text of white space only gives no chunks, and a process_document
\* call whose text gives no chunks raises the processing error and leaves
\* neither a collection in the store nor an entry in self.collections for
\* the document id it generated.
C15_EmptyDocumentLeavesNoIndex ==
    /\ \A file \in Files : IsBlank(file.text) => chunk_text(file.text) = <<>>
    /\ (last.op = "process_document" /\ chunk_text(last.file.text) = <<>>)
       => (/\ last.result.raised
           /\ last.result.error[1] = "Error processing document"
           /\ collection_name(last.document_id) \notin DOMAIN client
           /\ last.document_id \notin DOMAIN collections)

\* a blank PDF that was read and refused, with another document indexed
C15_Witness ==
    /\ last.op = "process_document"
    /\ IsBlank(last.file.text)
    /\ last.result.raised
    /\ last.result.error[2] = <<"Error extracting text from PDF",
                                "No text could be extracted from the PDF">>
    /\ DOMAIN client # {}

\* the file process_document was given under this name
FileNamed(filename) == CHOOSE file \in Files : file.filename = filename

\* C16: in every collection that holds entries, the n entries carry the
\* chunk indexes 0 .. n-1 in the order of the document's chunks, ids made of
\* the document id and the chunk index (so distinct), the owning document's
\* id, and chunk_count n.
C16_StoredChunkLayout ==
    \A name \in DOMAIN client :
        LET entries     == client[name].entries
            n           == Len(entries)
            document_id == client[name].metadata.document_id
            chunks      == chunk_text(FileNamed(client[name].metadata.filename).text)
        IN  n > 0 =>
            /\ name = <<"doc_", document_id>>
            /\ n = Len(chunks)
            /\ \A i \in 1 .. n :
                  /\ entries[i].metadata.chunk_index = i - 1
                  /\ entries[i].document = chunks[i]
                  /\ entries[i].id = <<document_id, "_chunk_", i - 1>>
                  /\ entries[i].metadata.document_id = document_id
                  /\ entries[i].metadata.chunk_count = n
            /\ \A i, j \in 1 .. n : i # j => entries[i].id # entries[j].id
            /\ \A other \in DOMAIN client \ {name} :
                  \A i \in 1 .. n, j \in 1 .. Len(client[other].entries) :
                      entries[i].id # client[other].entries[j].id

\* two documents stored, each with several chunks
C16_Witness ==
    /\ last.op = "process_document"
    /\ ~last.result.raised
    /\ Cardinality({name \in DOMAIN client : Len(client[name].entries) > 1}) > 1

\* C18: the vectors stored in one collection all come from one provider and
\* all have one length.
C18_OneProviderPerIndex ==
    \A name \in DOMAIN client :
        \A i, j \in 1 .. Len(client[name].entries) :
            /\ client[name].entries[i].embedding.provider
                  = client[name].entries[j].embedding.provider
            /\ client[name].entries[i].embedding.dim
                  = client[name].entries[j].embedding.dim

\* a document of several chunks stored by a provider other than
\* SimpleEmbeddings
C18_Witness ==
    /\ last.op = "process_document"
    /\ ~last.result.raised
    /\ embeddings = LocalEmbeddings
    /\ Len(client[collection_name(last.document_id)].entries) > 1
    /\ client[collection_name(last.document_id)].entries[1].embedding.provider
          = LocalEmbeddings

\* what search_similar_chunks(query, document_id, k) can return when none of
\* its calls fails
SearchResults(query, document_id, k) ==
    {search_similar_chunks(query, document_id, k, "ok", "ok", "ok", answer).result :
        answer \in StoreAnswers(query, document_id, k, "ok")}

\* the collection get_collection finds for each document id
Indexed == [document_id \in DocIds |-> get_collection(document_id, "ok").result]

\* C19: an answer_question call whose LLM raises leaves the store (the
\* collections, their chunks, vectors and metadata) and the adopted provider
\* as they were, and every document id leads to the collection it led to
\* before; after the call, the search it made still returns what it returned.
C19_GeneratorFailureKeepsRetrievalState ==
    /\ []((last.op = "answer_question" /\ last.llm = "raise")
          => last.searched \in SearchResults(last.question, last.document_id, AnswerK))
    /\ [][(/\ last'.op = "answer_question"
           /\ last' # last
           /\ last'.llm = "raise")
          => (/\ client' = client
              /\ embeddings' = embeddings
              /\ Indexed' = Indexed)]_vars

\* an answer on an indexed document whose LLM raised after the context was
\* built
C19_Witness ==
    /\ last.op = "answer_question"
    /\ last.llm = "raise"
    /\ last.indexed
    /\ last.context_parts # <<>>
    /\ last.result.value.answer = "error"
    /\ Len(client[collection_name(last.document_id)].entries) > 1

\* C20: a search that returns, whatever inserts and clears of its document
\* run at the same time, has read a complete index: the collection holds
\* every chunk of the document, and the search found at least one.
C20_SearchSeesCompleteIndexOrNone ==
    (last.op = "search_similar_chunks" /\ ~last.result.raised) =>
        /\ FullyPopulated(client[collection_name(last.document_id)])
        /\ last.result.value # <<>>

\* C17: every chunk chunk_text returns is non-empty after strip() and at
\* most 1000 characters long, also for a text with no paragraph break, line
\* break or space.
C17_ChunksNonEmptyAndBounded ==
    t_pc = "done" =>
        \A i \in 1 .. Len(t_chunks) :
            /\ Strip(t_chunks[i]) # <<>>
            /\ Len(t_chunks[i]) >= 1
            /\ Len(t_chunks[i]) <= 1000

\* a text longer than a chunk and without any separator has been split into
\* a full chunk and more
C17_Witness ==
    /\ t_pc = "done"
    /\ Len(t_text) > 1000
    /\ \A i \in 1 .. Len(t_text) : t_text[i] \notin {" ", "\n"}
    /\ Len(t_chunks) > 1
    /\ Len(t_chunks[1]) = 1000

\* C21: a search that returns has embedded its query with the provider, and
\* so the vector length, of the vectors stored for the searched document,
\* also when a later process has re-opened the store.
C21_QueryEmbeddedByStoringProvider ==
    (last.op = "search_similar_chunks" /\ ~last.result.raised) =>
        \A i \in 1 .. Len(client[collection_name(last.document_id)].entries) :
            LET stored == client[collection_name(last.document_id)].entries[i].embedding
            IN  /\ stored.provider = embed_query(embeddings, last.query).provider
                /\ stored.dim = embed_query(embeddings, last.query).dim

\* C22: whenever a handler can look, the two globals are both None or are
\* the id and the text of one uploaded document, and /ask answers from the
\* text of the document current_document_id names.
C22_GlobalsNameOneDocument ==
    /\ \/ current_document_id = NoId /\ current_document_text = None
       \/ /\ current_document_id \in DOMAIN uploaded
          /\ current_document_text = uploaded[current_document_id].text
    /\ (response.endpoint = "/ask" /\ response.status = 200) =>
          /\ response.document_id \in DOMAIN uploaded
          /\ response.body.text = uploaded[response.document_id].text

\* C23: with no other request in progress, a reading endpoint returns a
\* result only when the last of /upload's successes and /reset's returns
\* was an upload, it answers 'No document uploaded' otherwise, and /reset
\* always answers with success.
C23_ResultsOnlyWhileUploaded ==
    /\ (response.endpoint \in ReadingEndpoints /\ response.quiet) =>
          /\ response.status = 200 => response.session = "uploaded"
          /\ response.session = "no document" =>
                /\ response.status = 400
                /\ response.body = [error |-> NoDocumentUploaded]
    /\ response.endpoint = "/reset" =>
          /\ response.status = 200
          /\ response.body = ResetSucceeded

\* C24: when /reset has returned after clearing the current document, with
\* no upload in progress, the store holds the index of no uploaded document.
C24_ResetLeavesNoIndex ==
    (/\ response.endpoint = "/reset"
     /\ response.quiet
     /\ upload = Idle
     /\ reset = Idle
     /\ last.op = "clear_document"
     /\ last.result.value = TRUE) =>
        \A document_id \in DOMAIN uploaded :
            collection_name(document_id) \notin DOMAIN client

====
